---- MODULE Spec2Model ----
(***************************************************************************)
(* point-cluster: hierarchical greedy clustering of 2D points              *)
(* (src/index.ts, class PointClusterImpl).                                 *)
(*                                                                         *)
(* One instance is modelled: its options, the loaded input points, the     *)
(* per-level record arrays (the Float32Array behind every KDBush tree),    *)
(* the cluster property table and the outcome of the last call.            *)
(*                                                                         *)
(* Numbers.  Coordinates are integers.  The input points lie just above    *)
(* 2^24, where a float32 holds the even integers only, so Math.fround      *)
(* moves an odd coordinate; Fround models it bit for bit.  Every stored x  *)
(* is a multiple of 24 and every y a multiple of 12, and at most four      *)
(* points are loaded, so every weighted centroid wx / numPoints is an      *)
(* even integer (x) or an integer (y) that a Float32Array holds exactly.   *)
(* The radius radius / zoom is kept as the pair (radius, zoom) and         *)
(* compared without division.                                              *)
(***************************************************************************)
EXTENDS Integers, Sequences, FiniteSets, TLC

VARIABLES
    pc,            \* "new" before the constructor ran, "ready" after
    options,       \* this.options
    points,        \* this.points: the input array of the last load
    trees,         \* this.trees: level -> sequence of records
    clusterProps,  \* this.clusterProps
    loads,         \* number of load() calls made on the instance
    pass,          \* the locals of a running _cluster: zoom, i, nextData
    ret            \* the last call and what it returned or threw

vars == <<pc, options, points, trees, clusterProps, loads, pass, ret>>

----------------------------------------------------------------------------
(* Bounds of the model *)

MaxPoints == 3
MaxLoads == 2

----------------------------------------------------------------------------
(* Program constants *)

\* Infinity in the zoom slot of a record: above every zoom a pass can have
Infinity == 1000
\* parent slot of a record that no cluster absorbed
NoParent == -1
\* 2^24: up to here every integer is a float32
Two24 == 16777216
\* width of the zoom field of a cluster id
ZoomBits == 5
\* getLeaves' default limit
DefaultLimit == 10

Abs(n) == IF n < 0 THEN -n ELSE n

RECURSIVE Pow2(_)
Pow2(n) == IF n = 0 THEN 1 ELSE 2 * Pow2(n - 1)

\* spacing of the float32 grid around the natural number n
RECURSIVE Ulp(_)
Ulp(n) == IF n < Two24 THEN 1 ELSE 2 * Ulp(n \div 2)

\* Math.fround on an integer: round to the nearest float32, ties to the even
\* mantissa
Fround(n) ==
    LET m == Abs(n)
        u == Ulp(m)
        q == m \div u
        r == m % u
        rounded == IF 2 * r < u THEN q * u
                   ELSE IF 2 * r > u THEN (q + 1) * u
                   ELSE IF q % 2 = 0 THEN q * u ELSE (q + 1) * u
    IN  IF n < 0 THEN -rounded ELSE rounded

\* JavaScript's a % 32: the sign of the dividend
JsRem32(a) == IF a >= 0 THEN a % 32 ELSE -((-a) % 32)

\* JavaScript's a >> 5 on an int32: floor division
Shr5(a) == IF a >= 0 THEN a \div 32 ELSE -(((-a) + 31) \div 32)

\* JavaScript's a << 5 on an int32: the low 27 bits of a move up, the result
\* wraps to a signed 32-bit value
Shl5(a) ==
    LET low == a % Pow2(27)
    IN  IF low < Pow2(26) THEN low * 32 ELSE (low - Pow2(27)) * 32

RECURSIVE SumSeq(_)
SumSeq(s) == IF s = <<>> THEN 0 ELSE Head(s) + SumSeq(Tail(s))

----------------------------------------------------------------------------
(* Inputs *)

\* the input point universe: coordinates and the property v.  Three points
\* in a row, 26.8 apart: neighbours are within 40 of each other, the outer
\* two are not, nothing is within 20.  fround(16777273) = 16777272.
PointUniverse ==
    { [x |-> 16777224, y |-> 0, v |-> 3],
      [x |-> 16777248, y |-> 12, v |-> 7],
      [x |-> 16777273, y |-> 24, v |-> 3] }

PointArrays == UNION { [1..n -> PointUniverse] : n \in 0..MaxPoints }

\* the option objects a caller passes to the constructor; map and reduce are
\* the sum of v (README), scalingFunction is absent or zoom -> 2^-zoom
OptionsUniverse ==
    { [minZoom |-> 0, maxZoom |-> 1, minPoints |-> 2, radius |-> 40,
       reduce |-> FALSE, scalingFunction |-> "none"],
      [minZoom |-> 0, maxZoom |-> 1, minPoints |-> 3, radius |-> 40,
       reduce |-> TRUE, scalingFunction |-> "none"],
      [minZoom |-> 1, maxZoom |-> 2, minPoints |-> 2, radius |-> 40,
       reduce |-> TRUE, scalingFunction |-> "none"],
      [minZoom |-> 1, maxZoom |-> 2, minPoints |-> 2, radius |-> 40,
       reduce |-> TRUE, scalingFunction |-> "pow2"],
      [minZoom |-> 31, maxZoom |-> 31, minPoints |-> 2, radius |-> 40,
       reduce |-> FALSE, scalingFunction |-> "none"],
      [minZoom |-> 32, maxZoom |-> 32, minPoints |-> 2, radius |-> 40,
       reduce |-> FALSE, scalingFunction |-> "none"] }

----------------------------------------------------------------------------
(* Spatial index *)

\* sqDist(...) <= r * r for r = radius / d; radius / 0 is Infinity
InRadius(dx, dy, d) ==
    IF d = 0 THEN TRUE
    ELSE /\ Abs(dx) * Abs(d) <= options.radius
         /\ Abs(dy) * Abs(d) <= options.radius
         /\ d * d * (dx * dx + dy * dy) <= options.radius * options.radius

\* tree.within(x, y, radius / d): the record positions, in index order (a tree
\* of at most nodeSize = 64 items is never sorted)
Within(data, x, y, d) ==
    SelectSeq([k \in 1..Len(data) |-> k],
              LAMBDA k : InRadius(data[k].x - x, data[k].y - y, d))

\* tree.range(minX, minY, maxX, maxY)
Range(data, bbox) ==
    SelectSeq([k \in 1..Len(data) |-> k],
              LAMBDA k : /\ bbox[1] <= data[k].x /\ data[k].x <= bbox[3]
                         /\ bbox[2] <= data[k].y /\ data[k].y <= bbox[4])

----------------------------------------------------------------------------
(* Identifier encoding *)

\* the id _cluster allocates for the record at index a in the pass at zoom,
\* with n points loaded
ClusterId(a, zoom, n) == Shl5(a) + (zoom + 1) + n

_getOriginId(clusterId, n) == Shr5(clusterId - n)

_getOriginZoom(clusterId, n) == JsRem32(clusterId - n)

----------------------------------------------------------------------------
(* Hierarchy builder *)

\* new Float32Array(data): every slot of a record becomes a float32
_createTree(data) ==
    [k \in 1..Len(data) |->
        [data[k] EXCEPT !.x = Fround(@), !.y = Fround(@), !.id = Fround(@)]]

\* _map(data, k): the aggregated property object of a cluster record, or map
\* applied to the properties of the input point (map = p => ({sum: p.v}))
_map(data, k, props, pts) ==
    IF data[k].num > 1 THEN props[data[k].prop + 1]
    ELSE [sum |-> pts[data[k].id + 1].v]

\* (mutant) the clone flag is ignored: a cluster's table object is handed out
_mapAliasesUncloned(data, k, clone) ==
    IF data[k].num > 1 THEN {data[k].prop + 1} ELSE {}

\* the positions of the property table that hold the very object
\* _map(data, k, clone) returns: the record's own entry when the record is a
\* cluster and no clone was asked for; map's result is a new object
_mapAliases(data, k, clone) ==
    IF data[k].num > 1 /\ ~clone THEN {data[k].prop + 1} ELSE {}

\* reduce(clusterProperties, this._map(data, k)) over the fresh neighbours
\* from the j-th on (reduce = (a, b) => { a.sum += b.sum }); targets are the
\* table positions that hold the object clusterProperties
RECURSIVE ReduceNeighbors(_, _, _, _, _, _)
ReduceNeighbors(props, targets, data, fresh, j, pts) ==
    IF j > Len(fresh) THEN props
    ELSE LET b == _map(data, fresh[j], props, pts)
         IN  ReduceNeighbors([q \in 1..Len(props) |->
                                 IF q \in targets
                                 THEN [props[q] EXCEPT !.sum = @ + b.sum]
                                 ELSE props[q]],
                             targets, data, fresh, j + 1, pts)

\* the neighbours a visit still finds unprocessed: tree.within around the
\* record, less those whose zoom slot is already <= zoom
FreshNeighbors(data, i, zoom) ==
    SelectSeq(Within(data, data[i].x, data[i].y, zoom),
              LAMBDA k : data[k].zoom > zoom)

\* numPoints: the record's own count plus the counts of the fresh neighbours
ProvisionalCount(data, i, fresh) ==
    data[i].num + SumSeq([j \in 1..Len(fresh) |-> data[fresh[j]].num])

\* the merge decision
Merges(numPoints, numPointsOrigin) ==
    numPoints > numPointsOrigin /\ numPoints >= options.minPoints

\* (mutant) the fresh neighbours are marked but not copied forward
CarriedNeighborsDropped(data, fresh, numPoints) == <<>>

\* the records the no-merge branch pushes after the visited one: the fresh
\* neighbours, when there are any
CarriedNeighbors(data, fresh, numPoints) ==
    IF numPoints > 1 THEN [j \in 1..Len(fresh) |-> data[fresh[j]]] ELSE <<>>

\* (mutant) an absorbed neighbour gets its parent but keeps its zoom slot
MarkAbsorbedUnmarked(rec, zoom, id) == [rec EXCEPT !.parent = Fround(id)]

\* a fresh neighbour in the merge branch: its zoom slot is saved (so it is
\* not processed twice) and its parent slot is set; both are float32 slots
MarkAbsorbed(rec, zoom, id) ==
    [rec EXCEPT !.zoom = zoom, !.parent = Fround(id)]

\* the record the merge branch pushes
MergedRecord(wx, wy, numPoints, id, clusterPropIndex) ==
    [x |-> wx \div numPoints, y |-> wy \div numPoints, zoom |-> Infinity,
     id |-> id, parent |-> NoParent, num |-> numPoints,
     prop |-> clusterPropIndex]

\* one iteration of _cluster's outer loop, for the record at position i;
\* st = [data, nextData, clusterProps]
ClusterVisit(st, i, zoom, pts) ==
    IF st.data[i].zoom <= zoom THEN st
    ELSE
    LET d1 == [st.data EXCEPT ![i].zoom = zoom]
        fresh == FreshNeighbors(d1, i, zoom)
        freshSet == {fresh[j] : j \in 1..Len(fresh)}
        numPointsOrigin == d1[i].num
        numPoints == ProvisionalCount(d1, i, fresh)
    IN  IF Merges(numPoints, numPointsOrigin)
        THEN
          LET id == ClusterId(i - 1, zoom, Len(pts))
              wx == d1[i].x * numPointsOrigin
                    + SumSeq([j \in 1..Len(fresh) |->
                                 d1[fresh[j]].x * d1[fresh[j]].num])
              wy == d1[i].y * numPointsOrigin
                    + SumSeq([j \in 1..Len(fresh) |->
                                 d1[fresh[j]].y * d1[fresh[j]].num])
              clusterPropIndex == IF options.reduce THEN Len(st.props) ELSE -1
              \* clusterProperties = this._map(data, i, true), pushed to the
              \* table, then reduced into
              pushed == Append(st.props, _map(d1, i, st.props, pts))
              reduced ==
                    ReduceNeighbors(pushed,
                                    {clusterPropIndex + 1}
                                       \cup _mapAliases(d1, i, TRUE),
                                    d1, fresh, 1, pts)
              d2 == [k \in 1..Len(d1) |->
                       IF k \in freshSet THEN MarkAbsorbed(d1[k], zoom, id)
                       ELSE IF k = i THEN [d1[k] EXCEPT !.parent = Fround(id)]
                       ELSE d1[k]]
          IN  [data |-> d2,
               next |-> Append(st.next,
                               MergedRecord(wx, wy, numPoints, id,
                                            clusterPropIndex)),
               props |-> IF options.reduce THEN reduced ELSE st.props]
        ELSE
          LET d2 == IF numPoints > 1
                    THEN [k \in 1..Len(d1) |->
                            IF k \in freshSet
                            THEN [d1[k] EXCEPT !.zoom = zoom] ELSE d1[k]]
                    ELSE d1
          IN  [data |-> d2,
               next |-> (st.next \o <<d1[i]>>)
                          \o CarriedNeighbors(d2, fresh, numPoints),
               props |-> st.props]

RECURSIVE ClusterLoop(_, _, _, _)
ClusterLoop(st, i, zoom, pts) ==
    IF i > Len(st.data) THEN st
    ELSE ClusterLoop(ClusterVisit(st, i, zoom, pts), i + 1, zoom, pts)

\* _cluster(tree, zoom): the pass over the records of level zoom + 1; returns
\* the marked input records, nextData and the grown property table
_cluster(data, zoom, props, pts) ==
    ClusterLoop([data |-> data, next |-> <<>>, props |-> props], 1, zoom, pts)

\* the leaf records load pushes, one per input point
LeafRecords(pts) ==
    [i \in 1..Len(pts) |->
        [x |-> Fround(pts[i].x), y |-> Fround(pts[i].y), zoom |-> Infinity,
         id |-> i - 1, parent |-> NoParent, num |-> 1,
         prop |-> IF options.reduce THEN 0 ELSE -1]]

\* load's loop from z down to minZoom; b = [trees, props]
RECURSIVE BuildLevels(_, _, _)
BuildLevels(b, z, pts) ==
    IF z < options.minZoom THEN b
    ELSE LET st == _cluster(b.trees[z + 1], z, b.props, pts)
             marked == [b.trees EXCEPT ![z + 1] = st.data]
         IN  BuildLevels([trees |-> (z :> _createTree(st.next)) @@ marked,
                          props |-> st.props],
                         z - 1, pts)

Levels == DOMAIN trees

----------------------------------------------------------------------------
(* Query layer *)

ErrorMsg == "No cluster with the specified id."

Max(a, b) == IF a >= b THEN a ELSE b
Min(a, b) == IF a <= b THEN a ELSE b

\* (mutant) the clamp stops at maxZoom, one level short of the leaf level
_limitZoomToMaxZoom(z) == Max(options.minZoom, Min(z, options.maxZoom))

\* _limitZoom(z), z an integer or Infinity
_limitZoom(z) == Max(options.minZoom, Min(z, options.maxZoom + 1))

\* _getClusterJSON(data, k, clusterProps): id, centroid, cluster_id,
\* point_count and the aggregated property (0 stands for no property)
_getClusterJSON(data, k) ==
    [cluster |-> TRUE, id |-> data[k].id, point_count |-> data[k].num,
     x |-> data[k].x, y |-> data[k].y,
     sum |-> IF data[k].prop = -1 THEN 0
             ELSE clusterProps[data[k].prop + 1].sum]

\* this.points[i]: the input point itself, named by its index i
InputPoint(i) ==
    [cluster |-> FALSE, id |-> i, point_count |-> 1,
     x |-> points[i + 1].x, y |-> points[i + 1].y, sum |-> points[i + 1].v]

\* data[k + OFFSET_NUM] > 1 ? this._getClusterJSON(...) : this.points[...]
Project(data, k) ==
    IF data[k].num > 1 THEN _getClusterJSON(data, k) ELSE InputPoint(data[k].id)

\* how a call ends; built names the table entries _getClusterProperties was
\* handed while the call ran
Thrown(msg) ==
    [ok |-> FALSE, out |-> <<>>, num |-> 0, err |-> msg, built |-> {}]
Returned(out, num) ==
    [ok |-> TRUE, out |-> out, num |-> num, err |-> "", built |-> {}]

\* the table entries behind the cluster records at the positions ks of data,
\* each with the fields _getClusterProperties adds (propIndex -1: no entry)
Built(data, ks) ==
    { [pos |-> data[ks[j]].prop + 1, cluster_id |-> data[ks[j]].id,
       point_count |-> data[ks[j]].num] :
        j \in {i \in 1..Len(ks) : data[ks[i]].num > 1 /\ data[ks[i]].prop # -1} }

\* (mutant) the cluster fields are assigned to the table entry itself
EntryAfterProjectionInPlace(entry, b) ==
    [sum |-> entry.sum, cluster |-> TRUE, cluster_id |-> b.cluster_id,
     point_count |-> b.point_count]

\* a table entry after _getClusterProperties used it: Object.assign({}, entry)
\* copies it, and cluster, cluster_id, point_count go into the copy
EntryAfterProjection(entry, b) == entry

\* this.clusterProps after a call that built the properties of built
TableAfter(table, built) ==
    [q \in 1..Len(table) |->
        IF \E b \in built : b.pos = q
        THEN EntryAfterProjection(table[q], CHOOSE b \in built : b.pos = q)
        ELSE table[q]]

\* getClusters(bbox, zoom); without a tree at the level, tree.range is a
\* TypeError
getClusters(bbox, zoom) ==
    IF _limitZoom(zoom) \notin Levels THEN Thrown("TypeError")
    ELSE LET data == trees[_limitZoom(zoom)]
             ids == Range(data, bbox)
         IN  [Returned([j \in 1..Len(ids) |-> Project(data, ids[j])], 0)
                EXCEPT !.built = Built(data, ids)]

\* getChildren(clusterId)
getChildren(clusterId) ==
    LET originId == _getOriginId(clusterId, Len(points))
        originZoom == _getOriginZoom(clusterId, Len(points))
    IN  IF originZoom \notin Levels THEN Thrown(ErrorMsg)
        ELSE
        LET data == trees[originZoom]
        IN  IF originId >= Len(data) THEN Thrown(ErrorMsg)
            ELSE
            LET \* data[originId * stride] is undefined below index 0: the
                \* query point is NaN and within() finds nothing
                ids == IF originId < 0 THEN <<>>
                       ELSE Within(data, data[originId + 1].x,
                                   data[originId + 1].y, originZoom - 1)
                mine == SelectSeq(ids, LAMBDA k : data[k].parent = clusterId)
            IN  IF mine = <<>> THEN Thrown(ErrorMsg)
                ELSE [Returned([j \in 1..Len(mine) |->
                                   Project(data, mine[j])], 0)
                        EXCEPT !.built = Built(data, mine)]

\* _appendLeaves(result, clusterId, limit, offset, skipped); acc = [ok, out,
\* num], num the skipped counter; AppendChildren is its loop from child j on
\* (mutant) a sub-cluster is skipped as soon as anything is still to skip
SkipsWholeClusterStarted(skipped, point_count, offset) == skipped < offset

\* the test that skips a whole sub-cluster by its count
SkipsWholeCluster(skipped, point_count, offset) ==
    skipped + point_count <= offset

RECURSIVE _appendLeaves(_, _, _, _)
RECURSIVE AppendChildren(_, _, _, _, _)
AppendChildren(acc, children, j, limit, offset) ==
    IF j > Len(children) \/ ~acc.ok THEN acc
    ELSE
    LET child == children[j]
        after ==
            IF child.cluster
            THEN IF SkipsWholeCluster(acc.num, child.point_count, offset)
                 THEN [acc EXCEPT !.num = @ + child.point_count]
                 ELSE _appendLeaves(acc, child.id, limit, offset)
            ELSE IF acc.num < offset
                 THEN [acc EXCEPT !.num = @ + 1]
                 ELSE [acc EXCEPT !.out = Append(@, child)]
    IN  IF after.ok /\ Len(after.out) = limit THEN after
        ELSE AppendChildren(after, children, j + 1, limit, offset)

_appendLeaves(acc, clusterId, limit, offset) ==
    LET c == getChildren(clusterId)
    IN  IF ~c.ok THEN [c EXCEPT !.built = acc.built]
        ELSE AppendChildren([acc EXCEPT !.built = @ \cup c.built],
                            c.out, 1, limit, offset)

\* getLeaves(clusterId, limit, offset); 0 also stands for an omitted argument
getLeaves(clusterId, limit, offset) ==
    LET r == _appendLeaves(Returned(<<>>, 0), clusterId,
                           IF limit = 0 THEN DefaultLimit ELSE limit, offset)
    IN  IF r.ok THEN [Returned(r.out, 0) EXCEPT !.built = r.built] ELSE r

\* the loop of getClusterExpansionZoom; a child that is an input point has no
\* cluster_id, and getChildren(undefined) throws.  The result carries, next
\* to the zoom, the children fetched in the last step of the loop.
RECURSIVE ExpansionLoop(_, _, _, _, _)
ExpansionLoop(clusterId, isId, expansionZoom, last, built) ==
    IF expansionZoom > options.maxZoom
    THEN [Returned(last, expansionZoom) EXCEPT !.built = built]
    ELSE LET c == IF isId THEN getChildren(clusterId) ELSE Thrown(ErrorMsg)
         IN  IF ~c.ok THEN [c EXCEPT !.built = built]
             ELSE IF Len(c.out) # 1
             THEN [Returned(c.out, expansionZoom + 1)
                     EXCEPT !.built = built \cup c.built]
             ELSE ExpansionLoop(c.out[1].id, c.out[1].cluster,
                                expansionZoom + 1, c.out,
                                built \cup c.built)

\* getClusterExpansionZoom(clusterId)
getClusterExpansionZoom(clusterId) ==
    ExpansionLoop(clusterId, TRUE,
                  _getOriginZoom(clusterId, Len(points)) - 1, <<>>, {})

----------------------------------------------------------------------------
(* Arguments of the calls *)

\* around the first two points; the third point alone, as given; all three
BBoxes ==
    { <<16777224, 0, 16777248, 12>>,
      <<16777273, 24, 16777273, 24>>,
      <<16777224, 0, 16777273, 24>> }

\* every level, one zoom below, and zooms above the last level
ZoomArgs == (options.minZoom - 1 .. options.maxZoom + 1) \cup {Infinity}

\* the cluster ids load produced: the identity of every record that stands
\* for more than one point
ClusterIds ==
    UNION { {trees[z][k].id : k \in {j \in 1..Len(trees[z]) : trees[z][j].num > 1}}
            : z \in Levels }

\* ids no cluster need have: a point index, one below the point indices,
\* anchor 0 and anchor 1 of the finest level, anchor 0 of a zoom above it
OtherIds ==
    { 0, Len(points) - 32,
      Len(points) + options.maxZoom + 1,
      Len(points) + 32 + options.maxZoom + 1,
      Len(points) + options.maxZoom + 2 }

IdArgs == ClusterIds \cup OtherIds

\* limit and offset; 0 is also the omitted argument
LimitArgs == {0, 1, 2, Infinity}
OffsetArgs == 0..MaxPoints - 1

\* the (id, limit, offset) getLeaves is called with: every page of a cluster,
\* everything of any other id
LeavesArgs ==
    (ClusterIds \X LimitArgs \X OffsetArgs)
      \cup (OtherIds \X {Infinity} \X {0})

Call(op, arg, r) ==
    /\ pc = "ready"
    /\ ret' = [op |-> op, arg |-> arg, ok |-> r.ok, out |-> r.out,
               num |-> r.num, err |-> r.err]
    /\ clusterProps' = TableAfter(clusterProps, r.built)
    /\ UNCHANGED <<pc, options, points, trees, loads, pass>>

----------------------------------------------------------------------------
(* Operations *)

GetClusters(bbox, zoom) ==
    Call("getClusters", bbox \o <<zoom>>, getClusters(bbox, zoom))

GetChildren(clusterId) ==
    Call("getChildren", <<clusterId>>, getChildren(clusterId))

GetLeaves(clusterId, limit, offset) ==
    Call("getLeaves", <<clusterId, limit, offset>>,
         getLeaves(clusterId, limit, offset))

GetClusterExpansionZoom(clusterId) ==
    Call("getClusterExpansionZoom", <<clusterId>>,
         getClusterExpansionZoom(clusterId))

\* constructor(options)
Construct(o) ==
    /\ pc = "new"
    /\ pc' = "ready"
    /\ options' = o
    /\ ret' = [op |-> "new", arg |-> <<>>, ok |-> TRUE, out |-> <<>>,
               num |-> 0, err |-> ""]
    /\ UNCHANGED <<points, trees, clusterProps, loads, pass>>

\* load(points)
Load(pts) ==
    /\ pc = "ready"
    /\ loads < MaxLoads
    /\ LET top == options.maxZoom + 1
           b == BuildLevels([trees |-> (top :> _createTree(LeafRecords(pts))),
                             props |-> clusterProps],
                            options.maxZoom, pts)
       IN  /\ trees' = b.trees @@ trees
           /\ clusterProps' = b.props
    /\ points' = pts
    /\ loads' = loads + 1
    /\ ret' = [op |-> "load", arg |-> <<>>, ok |-> TRUE, out |-> <<>>,
               num |-> 0, err |-> ""]
    /\ UNCHANGED <<pc, options, pass>>

\* no _cluster is running
NoPass == [zoom |-> 0, i |-> 0, next |-> <<>>]

Init ==
    /\ pc = "new"
    /\ options = [minZoom |-> 1, maxZoom |-> 16, minPoints |-> 2, radius |-> 40,
                  reduce |-> FALSE, scalingFunction |-> "none"]
    /\ points = <<>>
    /\ trees = <<>>
    /\ clusterProps = <<>>
    /\ loads = 0
    /\ pass = NoPass
    /\ ret = [op |-> "none", arg |-> <<>>, ok |-> TRUE, out |-> <<>>,
             num |-> 0, err |-> ""]

\* the documented use: one load, then queries
Next ==
    \/ \E o \in OptionsUniverse : Construct(o)
    \/ \E pts \in PointArrays : loads = 0 /\ Load(pts)
    \/ \E bbox \in BBoxes, zoom \in ZoomArgs : GetClusters(bbox, zoom)
    \/ \E id \in IdArgs : GetChildren(id)
    \/ \E a \in LeavesArgs : GetLeaves(a[1], a[2], a[3])
    \/ \E id \in IdArgs : GetClusterExpansionZoom(id)

Spec == Init /\ [][Next]_vars

\* load called again on a loaded instance
NextReload ==
    \/ \E o \in OptionsUniverse : Construct(o)
    \/ \E pts \in PointArrays : Load(pts)

SpecReload == Init /\ [][NextReload]_vars

----------------------------------------------------------------------------
(* load, one visit of _cluster at a time *)

\* load up to the first pass: the points are kept and the leaf level is
\* stored; the loop starts at maxZoom
LoadBegin(pts) ==
    /\ pc = "ready"
    /\ pc' = "loading"
    /\ points' = pts
    /\ trees' = ((options.maxZoom + 1) :> _createTree(LeafRecords(pts))) @@ trees
    /\ pass' = [zoom |-> options.maxZoom, i |-> 1, next |-> <<>>]
    /\ ret' = [op |-> "loading", arg |-> <<>>, ok |-> TRUE, out |-> <<>>,
               num |-> 0, err |-> ""]
    /\ UNCHANGED <<options, clusterProps, loads>>

\* one iteration of _cluster's loop: data is the array of level zoom + 1
\* itself, clusterProps the table of the instance
ClusterStep ==
    /\ pc = "loading"
    /\ pass.zoom >= options.minZoom
    /\ pass.i <= Len(trees[pass.zoom + 1])
    /\ LET st == ClusterVisit([data |-> trees[pass.zoom + 1],
                               next |-> pass.next, props |-> clusterProps],
                              pass.i, pass.zoom, points)
       IN  /\ trees' = [trees EXCEPT ![pass.zoom + 1] = st.data]
           /\ clusterProps' = st.props
           /\ pass' = [pass EXCEPT !.i = @ + 1, !.next = st.next]
    /\ UNCHANGED <<pc, options, points, loads, ret>>

\* _cluster returns nextData, load stores it as level zoom and goes on with
\* zoom - 1
ClusterReturn ==
    /\ pc = "loading"
    /\ pass.zoom >= options.minZoom
    /\ pass.i > Len(trees[pass.zoom + 1])
    /\ trees' = (pass.zoom :> _createTree(pass.next)) @@ trees
    /\ pass' = [zoom |-> pass.zoom - 1, i |-> 1, next |-> <<>>]
    /\ UNCHANGED <<pc, options, points, clusterProps, loads, ret>>

\* the loop of load is over
LoadReturn ==
    /\ pc = "loading"
    /\ pass.zoom < options.minZoom
    /\ pc' = "ready"
    /\ loads' = loads + 1
    /\ pass' = NoPass
    /\ ret' = [op |-> "load", arg |-> <<>>, ok |-> TRUE, out |-> <<>>,
               num |-> 0, err |-> ""]
    /\ UNCHANGED <<options, points, trees, clusterProps>>

NextPass ==
    \/ \E o \in OptionsUniverse : Construct(o)
    \/ \E pts \in PointArrays : loads = 0 /\ LoadBegin(pts)
    \/ ClusterStep
    \/ ClusterReturn
    \/ LoadReturn

SpecPass == Init /\ [][NextPass]_vars

----------------------------------------------------------------------------
(* The identifier encoding on its own *)

\* anchor indices: the first records of a level, and the first index whose
\* ids lie above 2^24
AnchorArgs == {0, 1, 2, 524288}

\* an anchor index, a pass zoom and a number of loaded points
InitId ==
    /\ pc = "id"
    /\ options = [minZoom |-> 1, maxZoom |-> 16, minPoints |-> 2, radius |-> 40,
                  reduce |-> FALSE, scalingFunction |-> "none"]
    /\ points = <<>>
    /\ trees = <<>>
    /\ clusterProps = <<>>
    /\ loads = 0
    /\ pass = NoPass
    /\ \E a \in AnchorArgs, z \in 0..31, n \in 0..MaxPoints :
          ret = [op |-> "id", arg |-> <<a, z, n>>, ok |-> TRUE, out |-> <<>>,
                 num |-> 0, err |-> ""]

\* the id is allocated, stored in a record (a float32) and decoded:
\* num is the stored id, out = <<_getOriginId, _getOriginZoom>>
AllocateId ==
    /\ pc = "id" /\ ret.op = "id"
    /\ LET id == Fround(ClusterId(ret.arg[1], ret.arg[2], ret.arg[3]))
       IN  ret' = [ret EXCEPT !.op = "allocated", !.num = id,
                              !.out = <<_getOriginId(id, ret.arg[3]),
                                        _getOriginZoom(id, ret.arg[3])>>]
    /\ UNCHANGED <<pc, options, points, trees, clusterProps, loads, pass>>

SpecId == InitId /\ [][AllocateId]_vars

----------------------------------------------------------------------------
(* Vocabulary of the properties *)

N == Len(points)

Loaded == loads > 0

\* the sum of point_count over the records of a level
LevelCount(z) == SumSeq([k \in 1..Len(trees[z]) |-> trees[z][k].num])

\* the sum of the counts of a result, an input point counting as 1
TotalCount(out) ==
    SumSeq([j \in 1..Len(out) |->
               IF out[j].cluster THEN out[j].point_count ELSE 1])

InBBox(x, y, bbox) ==
    /\ bbox[1] <= x /\ x <= bbox[3]
    /\ bbox[2] <= y /\ y <= bbox[4]

\* bbox covers every input point, by its coordinates as given
CoversInput(bbox) ==
    \A i \in 1..N : InBBox(points[i].x, points[i].y, bbox)

\* bbox covers every input point, by its coordinates reduced to float32
CoversStored(bbox) ==
    \A i \in 1..N : InBBox(Fround(points[i].x), Fround(points[i].y), bbox)

\* the number model is exact: the centroid of every cluster record times its
\* count is the weighted sum over the records it absorbed (no remainder was
\* dropped by wx / numPoints, no bit by the Float32Array)
CentroidsExact ==
    Loaded =>
      \A z \in options.minZoom .. options.maxZoom :
        \A i \in 1..Len(trees[z + 1]) :
          LET id == trees[z + 1][i].parent
              kids == SelectSeq([k \in 1..Len(trees[z + 1]) |-> k],
                                LAMBDA k : trees[z + 1][k].parent = id)
          IN  (id # NoParent /\ id = Fround(ClusterId(i - 1, z, N))) =>
                \E c \in 1..Len(trees[z]) :
                  /\ trees[z][c].id = id
                  /\ trees[z][c].x * trees[z][c].num =
                       SumSeq([j \in 1..Len(kids) |->
                                 trees[z + 1][kids[j]].x * trees[z + 1][kids[j]].num])
                  /\ trees[z][c].y * trees[z][c].num =
                       SumSeq([j \in 1..Len(kids) |->
                                 trees[z + 1][kids[j]].y * trees[z + 1][kids[j]].num])

\* load taken visit by visit ends with the levels and the table that load
\* taken as one step builds
StepwiseLoadAgrees ==
    (pc = "ready" /\ Loaded) =>
      LET top == options.maxZoom + 1
          b == BuildLevels([trees |-> (top :> _createTree(LeafRecords(points))),
                            props |-> <<>>],
                           options.maxZoom, points)
      IN  trees = b.trees /\ clusterProps = b.props

RetBBox == SubSeq(ret.arg, 1, 4)
RetZoom == ret.arg[5]

----------------------------------------------------------------------------
(* C1: counts are conserved *)

\* C1 as stated: after load the point_count of the records of every level
\* minZoom..maxZoom+1 sums to N, and getClusters with a bbox that covers every
\* input point returns counts that total N.
C1_CountsTotalN_AnyCoveringBBox ==
    Loaded =>
      /\ \A z \in options.minZoom .. options.maxZoom + 1 :
            z \in Levels /\ LevelCount(z) = N
      /\ (ret.op = "getClusters" /\ CoversInput(RetBBox))
            => (ret.ok /\ TotalCount(ret.out) = N)

\* C1 as amended: the same, for a bbox that covers the float32 value of every
\* input point's coordinates (the value the index stores).
C1_CountsTotalN ==
    Loaded =>
      /\ \A z \in options.minZoom .. options.maxZoom + 1 :
            z \in Levels /\ LevelCount(z) = N
      /\ (ret.op = "getClusters" /\ CoversStored(RetBBox))
            => (ret.ok /\ TotalCount(ret.out) = N)

\* C1 witness: three points loaded, a covering getClusters answered with a
\* cluster of 2 next to a carried single point, and the coarsest level holds
\* a cluster of 3 built on that cluster.
C1_Witness ==
    /\ Loaded /\ N = 3
    /\ ret.op = "getClusters" /\ CoversStored(RetBBox) /\ ret.ok
    /\ Len(ret.out) = 2
    /\ \E j \in 1..2 : ret.out[j].cluster /\ ret.out[j].point_count = 2
    /\ \E j \in 1..2 : ~ret.out[j].cluster
    /\ \E k \in 1..Len(trees[options.minZoom]) : trees[options.minZoom][k].num = 3

----------------------------------------------------------------------------
(* C2, C3, C10: queries on the ids load produced *)

RetId == ret.arg[1]

\* every pass zoom of the instance leaves zoom + 1 inside the zoom field
PassZoomsEncodable == options.maxZoom + 1 < Pow2(ZoomBits)

\* the count of the cluster with this id
PointCountOf(id) ==
    LET z == CHOOSE z \in Levels : \E k \in 1..Len(trees[z]) : trees[z][k].id = id
        k == CHOOSE k \in 1..Len(trees[z]) : trees[z][k].id = id
    IN  trees[z][k].num

Distinct(out) ==
    \A i, j \in 1..Len(out) : out[i].id = out[j].id => i = j

IsInputPoint(f) ==
    ~f.cluster /\ f.id \in 0..N - 1 /\ f = InputPoint(f.id)

LeavesComplete ==
    /\ ret.ok
    /\ Len(ret.out) = PointCountOf(RetId)
    /\ \A j \in 1..Len(ret.out) : IsInputPoint(ret.out[j])
    /\ Distinct(ret.out)

AllLeavesOfCluster ==
    /\ Loaded /\ ret.op = "getLeaves" /\ RetId \in ClusterIds
    /\ ret.arg[2] = Infinity /\ ret.arg[3] = 0

\* C2 as stated: for every cluster id load produced, getLeaves(id, Infinity,
\* 0) returns exactly point_count input points, none of them twice.
C2_LeavesArePointCount == AllLeavesOfCluster => LeavesComplete

\* C2 where every pass zoom fits the zoom field (maxZoom <= 30)
C2_LeavesArePointCount_Encodable ==
    (AllLeavesOfCluster /\ PassZoomsEncodable) => LeavesComplete

\* the records of the origin level of id whose parent slot is id, projected
ChildrenByParent(id) ==
    LET z == _getOriginZoom(id, N)
    IN  IF z \notin Levels THEN {}
        ELSE { Project(trees[z], k) :
                 k \in {j \in 1..Len(trees[z]) : trees[z][j].parent = id} }

ChildrenExact ==
    /\ ret.ok
    /\ {ret.out[j] : j \in 1..Len(ret.out)} = ChildrenByParent(RetId)
    /\ Len(ret.out) = Cardinality(ChildrenByParent(RetId))

ChildrenOfCluster ==
    Loaded /\ ret.op = "getChildren" /\ RetId \in ClusterIds

\* C3 as stated: for every cluster id load produced, getChildren(id) does not
\* fail and returns the records of the decoded origin level whose parent is
\* id, all of them and only them.
C3_ChildrenAreParented == ChildrenOfCluster => ChildrenExact

\* C3 where every pass zoom fits the zoom field (maxZoom <= 30)
C3_ChildrenAreParented_Encodable ==
    (ChildrenOfCluster /\ PassZoomsEncodable) => ChildrenExact

ExpansionInRange ==
    /\ ret.ok
    /\ ret.num >= _getOriginZoom(RetId, N)
    /\ ret.num <= options.maxZoom + 1
    /\ (Len(ret.out) # 1 \/ ret.num > options.maxZoom)

ExpansionOfCluster ==
    Loaded /\ ret.op = "getClusterExpansionZoom" /\ RetId \in ClusterIds

\* C10 as stated: for every cluster id load produced,
\* getClusterExpansionZoom(id) returns a zoom between the decoded origin zoom
\* and maxZoom+1, and the cluster of the last loop step has a number of
\* children other than 1 unless the loop ran past maxZoom.
C10_ExpansionZoomInRange == ExpansionOfCluster => ExpansionInRange

\* C10 where every pass zoom fits the zoom field (maxZoom <= 30)
C10_ExpansionZoomInRange_Encodable ==
    (ExpansionOfCluster /\ PassZoomsEncodable) => ExpansionInRange

----------------------------------------------------------------------------
(* C4: ids that name no cluster *)

IdQueries == {"getChildren", "getLeaves", "getClusterExpansionZoom"}

FailsUnknownCluster == ~ret.ok /\ ret.err = ErrorMsg /\ ret.out = <<>>

\* C4 as stated: getChildren, getLeaves and getClusterExpansionZoom fail with
\* the unknown-cluster error, returning nothing, whenever the id is not the
\* identity of a cluster record load created.
C4_UnknownIdFails ==
    (Loaded /\ ret.op \in IdQueries /\ RetId \notin ClusterIds)
      => FailsUnknownCluster

\* C4 for getChildren and getLeaves alone
C4_UnknownIdFails_ChildrenLeaves ==
    (Loaded /\ ret.op \in {"getChildren", "getLeaves"} /\ RetId \notin ClusterIds)
      => FailsUnknownCluster

----------------------------------------------------------------------------
(* C5: load on a loaded instance *)

\* C5 as stated: a call of load on an instance that is already loaded fails
\* and leaves the points, the levels and the property table as they were.
C5_SecondLoadRejected ==
    [][(Loaded /\ loads' # loads)
         => (~ret'.ok /\ UNCHANGED <<points, trees, clusterProps>>)]_vars

----------------------------------------------------------------------------
(* C6: the radius of a pass *)

\* within radius * scalingFunction(z) of each other, scalingFunction being
\* the option when supplied (zoom -> 2^-zoom) and 1/z otherwise
InScaledRadius(dx, dy, z) ==
    InRadius(dx, dy, IF options.scalingFunction = "pow2" THEN Pow2(z) ELSE z)

\* C6 as stated: the pass at zoom z searches within radius *
\* scalingFunction(z) with the caller's scalingFunction, so every record a
\* pass absorbed lies within that distance of the anchor of its cluster.
C6_RadiusIsScaled ==
    Loaded =>
      \A z \in options.minZoom .. options.maxZoom :
        \A i, k \in 1..Len(trees[z + 1]) :
          ( /\ trees[z + 1][i].parent = Fround(ClusterId(i - 1, z, N))
            /\ trees[z + 1][k].parent = trees[z + 1][i].parent )
          => InScaledRadius(trees[z + 1][k].x - trees[z + 1][i].x,
                            trees[z + 1][k].y - trees[z + 1][i].y, z)

----------------------------------------------------------------------------
(* C7: the identifier encoding *)

\* C7 as stated: for every pass zoom in 0..31 and every anchor index the id
\* decodes to the anchor index again and to an origin zoom that determines
\* the zoom, no two (anchor, zoom) pairs share an id, and no id is a point
\* index 0..n-1.
C7_EncodingLossless ==
    (pc = "id" /\ ret.op = "allocated") =>
      LET a == ret.arg[1]
          z == ret.arg[2]
          n == ret.arg[3]
      IN  /\ ret.out[1] = a
          /\ ret.out[2] = (z + 1) % 32
          /\ ret.num \notin 0..n - 1
          /\ \A a2 \in AnchorArgs, z2 \in 0..31 :
                Fround(ClusterId(a2, z2, n)) = ret.num => (a2 = a /\ z2 = z)

----------------------------------------------------------------------------
(* C8: zoom bounds at construction *)

\* C8 as stated: an instance whose zoom bounds exceed what the 5-bit zoom
\* field holds is rejected by the constructor, so no constructed instance
\* has a pass zoom outside 0..31.
C8_ZoomBoundsValidated ==
    pc = "ready" =>
      \A z \in options.minZoom .. options.maxZoom : z \in 0 .. Pow2(ZoomBits) - 1

----------------------------------------------------------------------------
(* C9: getClusters above maxZoom *)

GetClustersAboveMaxZoom ==
    Loaded /\ ret.op = "getClusters" /\ RetZoom >= options.maxZoom + 1

ReturnsInputPoints(inside) ==
    /\ ret.ok
    /\ \A j \in 1..Len(ret.out) : IsInputPoint(ret.out[j])
    /\ Distinct(ret.out)
    /\ {ret.out[j].id : j \in 1..Len(ret.out)} = inside

\* C9 as stated: at every zoom >= maxZoom+1 getClusters does not fail and
\* returns exactly the input points whose coordinates lie in bbox, each as
\* the input point itself, none as a cluster.
C9_LeafLevelByInputCoordinates ==
    GetClustersAboveMaxZoom =>
      ReturnsInputPoints({i \in 0..N - 1 :
                            InBBox(points[i + 1].x, points[i + 1].y, RetBBox)})

\* C9 as amended: the same, for the input points whose coordinates reduced
\* to float32 lie in bbox.
C9_LeafLevelByStoredCoordinates ==
    GetClustersAboveMaxZoom =>
      ReturnsInputPoints({i \in 0..N - 1 :
                            InBBox(Fround(points[i + 1].x),
                                   Fround(points[i + 1].y), RetBBox)})

\* C9 witness: getClusters(bbox, Infinity) on three points, two of which a
\* pass merged, answered with some of the points but not all.
C9_Witness ==
    /\ GetClustersAboveMaxZoom /\ RetZoom = Infinity /\ N = 3
    /\ ret.ok /\ Len(ret.out) = 2
    /\ \E k \in 1..Len(trees[options.maxZoom]) : trees[options.maxZoom][k].num = 2

----------------------------------------------------------------------------
(* C11: the pages of getLeaves *)

\* s.slice(offset, offset + limit)
Slice(s, offset, limit) == SubSeq(s, offset + 1, Min(Len(s), offset + limit))

PageOfCluster ==
    /\ Loaded /\ ret.op = "getLeaves" /\ RetId \in ClusterIds
    /\ ret.arg[2] >= 1 /\ ret.arg[3] >= 0

\* C11: for every cluster id load produced, every limit >= 1 and every
\* offset >= 0, getLeaves(id, limit, offset) ends as getLeaves(id, Infinity,
\* 0) ends and returns the slice [offset, offset + limit) of its result:
\* no leaf is dropped, repeated or reordered.
C11_LeavesPageIsSlice ==
    PageOfCluster =>
      LET full == getLeaves(RetId, Infinity, 0)
      IN  /\ ret.ok = full.ok
          /\ ret.err = full.err
          /\ ret.out = Slice(full.out, ret.arg[3], ret.arg[2])

\* C11 witness: a page of one leaf at offset 2 of a cluster of 3 whose first
\* child is a cluster of 2, skipped as a whole; the page is the last leaf.
C11_Witness ==
    /\ PageOfCluster /\ ret.ok
    /\ ret.arg[2] = 1 /\ ret.arg[3] = 2
    /\ PointCountOf(RetId) = 3
    /\ getChildren(RetId).out[1].cluster
    /\ getChildren(RetId).out[1].point_count = 2
    /\ Len(ret.out) = 1
    /\ ret.out[1] = getLeaves(RetId, Infinity, 0).out[3]

\* C11 witness of a page cut by the limit inside a sub-cluster: the first
\* leaf of a cluster of 3 whose first child is a cluster of 2.
C11_WitnessLimit ==
    /\ PageOfCluster /\ ret.ok
    /\ ret.arg[2] = 1 /\ ret.arg[3] = 0
    /\ PointCountOf(RetId) = 3
    /\ getChildren(RetId).out[1].cluster
    /\ Len(ret.out) = 1

----------------------------------------------------------------------------
(* C12: aggregated properties *)

\* the sum of v over the input points the cluster id subsumes, and their
\* number, followed down the parent slots of the records of every level
RECURSIVE SubsumedSum(_, _)
RECURSIVE SubsumedAtLevel(_, _, _)
SubsumedAtLevel(id, z, what) ==
    SumSeq([k \in 1..Len(trees[z]) |->
              IF trees[z][k].parent # id THEN 0
              ELSE IF trees[z][k].num > 1 THEN SubsumedSum(trees[z][k].id, what)
              ELSE IF what = "v" THEN points[trees[z][k].id + 1].v ELSE 1])

SubsumedSum(id, what) ==
    LET zs == [j \in 1..(options.maxZoom + 1 - options.minZoom) |->
                 options.minZoom + j]
    IN  SumSeq([j \in 1..Len(zs) |-> SubsumedAtLevel(id, zs[j], what)])

AggregateIsSum(rec) ==
    /\ rec.prop \in 0..Len(clusterProps) - 1
    /\ clusterProps[rec.prop + 1].sum = SubsumedSum(rec.id, "v")
    /\ rec.num = SubsumedSum(rec.id, "count")

\* C12: with map and reduce the sum of v, after load every cluster record of
\* every level has an aggregated property equal to the sum of v over the
\* input points it subsumes (so no later pass changed the property of a
\* cluster it used as anchor or absorbed), and getClusters and getChildren
\* report that sum.
C12_AggregateIsSumOfSubsumed ==
    (Loaded /\ options.reduce) =>
      /\ \A z \in options.minZoom .. options.maxZoom + 1 :
            \A k \in 1..Len(trees[z]) :
              trees[z][k].num > 1 => AggregateIsSum(trees[z][k])
      /\ (ret.op \in {"getClusters", "getChildren"} /\ ret.ok) =>
            \A j \in 1..Len(ret.out) :
              ret.out[j].cluster
                => ret.out[j].sum = SubsumedSum(ret.out[j].id, "v")

\* C12 witness: a cluster of 2 built at the finer pass was the anchor of, or
\* was absorbed into, a cluster of 3 of the coarser pass; the two sums differ
\* and getChildren of the coarser cluster reports the finer one's sum.
C12_Witness ==
    /\ Loaded /\ options.reduce /\ N = 3
    /\ ret.op = "getChildren" /\ ret.ok
    /\ \E k \in 1..Len(trees[options.minZoom]) :
          /\ trees[options.minZoom][k].id = RetId
          /\ trees[options.minZoom][k].num = 3
          /\ clusterProps[trees[options.minZoom][k].prop + 1].sum = 13
    /\ \E j \in 1..Len(ret.out) :
          /\ ret.out[j].cluster /\ ret.out[j].point_count = 2
          /\ ret.out[j].sum = 6

\* C12 witness of the README example: two points with v = 3 and v = 7 in one
\* cluster whose property is 10
C12_WitnessTen ==
    /\ Loaded /\ options.reduce /\ N = 2
    /\ ret.op = "getClusters" /\ ret.ok /\ Len(ret.out) = 1
    /\ ret.out[1].cluster /\ ret.out[1].sum = 10

----------------------------------------------------------------------------
(* C13: queries leave the index alone *)

QueryOps == {"getClusters", "getChildren", "getLeaves", "getClusterExpansionZoom"}

\* C13: on a loaded instance no call of getClusters, getChildren, getLeaves
\* or getClusterExpansionZoom changes a record of a level (coordinates, zoom
\* marker, id, parent, count, property index), an entry of the property
\* table or the points; and in every state a getClusters call left behind,
\* whatever queries came before it, the same getClusters(bbox, zoom) made
\* again ends as that call ended, with the same result.
C13_QueriesLeaveIndexAlone ==
    /\ [][(Loaded /\ ret'.op \in QueryOps) =>
           /\ trees' = trees
           /\ clusterProps' = clusterProps
           /\ points' = points]_vars
    /\ []((Loaded /\ ret.op = "getClusters") =>
           LET again == getClusters(RetBBox, RetZoom)
           IN  /\ again.ok = ret.ok
               /\ again.err = ret.err
               /\ again.out = ret.out)

\* C13 witness: a query answered with a cluster whose properties were built
\* from a table entry (sum 13 of three points), and the entry still holds
\* nothing but the sum.
C13_Witness ==
    /\ Loaded /\ options.reduce /\ N = 3
    /\ ret.op = "getClusters" /\ ret.ok
    /\ \E j \in 1..Len(ret.out) :
          /\ ret.out[j].cluster /\ ret.out[j].sum = 13
          /\ \E q \in 1..Len(clusterProps) :
                /\ clusterProps[q] = [sum |-> 13]
                /\ [pos |-> q, cluster_id |-> ret.out[j].id, point_count |-> 3]
                      \in getClusters(RetBBox, RetZoom).built

----------------------------------------------------------------------------
(* C14: a pass handles every record once *)

\* a pass of _cluster is between two visits
PassRunning == pc = "loading" /\ pass.zoom >= options.minZoom

\* the cluster records of level whose identity is the parent slot of rec
ClustersOf(rec, level) ==
    {c \in 1..Len(level) : Fround(level[c].id) = rec.parent /\ level[c].num > 1}

\* the records of level with the identity, coordinates and count of rec
CopiesOf(rec, level) ==
    {c \in 1..Len(level) :
        /\ Fround(level[c].id) = rec.id
        /\ level[c].x = rec.x /\ level[c].y = rec.y
        /\ level[c].num = rec.num}

\* absorbed: the parent is the identity of exactly one cluster record of
\* level and no copy of rec is there; carried: the parent is none and exactly
\* one copy of rec is there
AbsorbedOrCarried(rec, level) ==
    IF rec.parent # NoParent
    THEN Cardinality(ClustersOf(rec, level)) = 1 /\ CopiesOf(rec, level) = {}
    ELSE Cardinality(CopiesOf(rec, level)) = 1

\* not handled yet: no parent, nothing emitted for it, its visit is to come
Untouched(rec, k, level) ==
    /\ rec.parent = NoParent
    /\ CopiesOf(rec, level) = {}
    /\ k >= pass.i

\* what one visit of the pass at zoom may do to the input level
VisitHandlesOnce ==
    LET zoom == pass.zoom
        i == pass.i
        data == trees[zoom + 1]
        after == trees'[zoom + 1]
    IN  /\ Len(after) = Len(data)
        \* a record processed already is no trigger: nothing is decided,
        \* written or emitted
        /\ data[i].zoom <= zoom => (after = data /\ pass'.next = pass.next)
        \* a trigger is marked, so that it is a trigger this once
        /\ data[i].zoom > zoom => after[i].zoom = zoom
        /\ \A k \in 1..Len(data) :
              \* a handled record is left as it is
              /\ data[k].zoom <= zoom => after[k] = data[k]
              \* a parent, once written, stays
              /\ data[k].parent # NoParent => after[k].parent = data[k].parent
              \* a parent is written to an unhandled record only, and the
              \* record is handled from then on
              /\ after[k].parent # data[k].parent =>
                    (data[k].zoom > zoom /\ after[k].zoom = zoom)

\* C14: in the pass at zoom every record of level zoom + 1 is handled once.
\* A visit decides for its record only if the record was not processed yet
\* and marks it; it never rewrites a parent and never touches a handled
\* record.  Between the visits every handled record is either absorbed or
\* carried with respect to nextData, every other record is untouched, and
\* once the pass has stored level zoom every record of level zoom + 1 is
\* either absorbed (its parent is the identity of exactly one cluster record
\* of level zoom) or carried (no parent, exactly one copy with its identity,
\* coordinates and point_count in level zoom), never both, never neither.
C14_PassHandlesEachRecordOnce ==
    /\ [][(PassRunning /\ pass'.zoom = pass.zoom /\ pass'.i = pass.i + 1)
             => VisitHandlesOnce]_vars
    /\ [](PassRunning =>
            \A k \in 1..Len(trees[pass.zoom + 1]) :
              LET rec == trees[pass.zoom + 1][k]
              IN  IF rec.zoom <= pass.zoom
                  THEN AbsorbedOrCarried(rec, pass.next)
                  ELSE Untouched(rec, k, pass.next))
    /\ [](\A z \in options.minZoom .. options.maxZoom :
            (z \in Levels /\ z + 1 \in Levels) =>
              \A k \in 1..Len(trees[z + 1]) :
                /\ trees[z + 1][k].zoom <= z
                /\ AbsorbedOrCarried(trees[z + 1][k], trees[z]))

\* C14 witness: a finished pass over three records absorbed two of them into
\* one cluster and carried the third.
C14_Witness ==
    /\ pc = "ready" /\ Loaded /\ N = 3
    /\ \E z \in options.minZoom .. options.maxZoom :
          /\ Len(trees[z + 1]) = 3 /\ Len(trees[z]) = 2
          /\ \E a, b, c \in 1..3 :
                /\ a # b
                /\ trees[z + 1][a].parent # NoParent
                /\ trees[z + 1][b].parent = trees[z + 1][a].parent
                /\ trees[z + 1][c].parent = NoParent
                /\ \A k \in 1..3 : AbsorbedOrCarried(trees[z + 1][k], trees[z])

\* C14 witness inside a pass: the trigger did not reach minPoints, so its
\* neighbour was carried with it and is marked before its own visit
C14_WitnessCarriedNeighbor ==
    /\ PassRunning
    /\ \E k \in 1..Len(trees[pass.zoom + 1]) :
          /\ k >= pass.i
          /\ trees[pass.zoom + 1][k].zoom <= pass.zoom
          /\ trees[pass.zoom + 1][k].parent = NoParent
          /\ Cardinality(CopiesOf(trees[pass.zoom + 1][k], pass.next)) = 1

====
